---- MODULE Spec2Model ----
(***************************************************************************)
(* A model of the lead pipeline's two batch programs:                      *)
(*   src/score_rank.py      score, sort and deduplicate enriched leads     *)
(*   src/enrich_contacts.py text utilities (extract_urls, extract_emails)  *)
(*                          and the per-lead contact resolution            *)
(* Python str values are TLA+ strings; the str methods the programs use    *)
(* (lower, strip, startswith, endswith, in, slicing) are computed          *)
(* character by character.                                                 *)
(***************************************************************************)
EXTENDS Integers, Sequences, FiniteSets, TLC

VARIABLES
    \* ---- score_rank.py ----
    inExists,    \* os.path.exists(IN_PATH)
    outDir,      \* the directory of OUT_PATH exists
    rows,        \* rows = read_csv(IN_PATH)
    allowFile,   \* config/verticals_allow.txt as load_allow_terms finds it
    allow,       \* ALLOW_TERMS
    scored,      \* scored
    pos,         \* the number of rows of scored the dedupe loop has visited
    seen,        \* seen
    deduped,     \* deduped
    out,         \* the data rows written to OUT_PATH
    outFields,   \* the header row written to OUT_PATH (<<>>: not written)
    pc,          \* position in the script
    \* ---- enrich_contacts.py: text utilities ----
    page,        \* an HTML document, the argument of extract_emails
    emails,      \* the set extract_emails returned
    in_text,     \* a text, the argument of extract_urls
    urls,        \* the list extract_urls returned
    called,      \* the utilities that have returned
    \* ---- enrich_contacts.py: the script ----
    rawExists,   \* os.path.exists(RAW_PATH)
    dataDir,     \* the directory data/ exists
    leads,       \* rows, the data rows of RAW_PATH
    world,       \* the external state: what each fetch and each Reddit call returns
    lead_i,      \* the number of leads the loop has started
    candidates,  \* candidates of the lead being resolved
    cand_i,      \* the number of candidates the visit loop has visited
    lead_website,     \* website
    lead_contact_url, \* contact_url
    lead_company,     \* company
    lead_emails, \* emails, the accumulator of the lead being resolved
    probes,      \* the results of the collect_from_site calls of this lead, in order
    out_rows,    \* out_rows
    rerun_rows,  \* out_rows of a second run on the same input and external state
    enriched,    \* ENRICHED_PATH as written (<<>>: not written)
    epc          \* position in the script

rankVars ==
    <<inExists, outDir, rows, allowFile, allow, scored, pos, seen, deduped, out,
      outFields, pc>>

textVars == <<page, emails, in_text, urls, called>>

enrichVars ==
    <<rawExists, dataDir, leads, world, lead_i, candidates, cand_i, lead_website,
      lead_contact_url, lead_company, lead_emails, probes, out_rows, rerun_rows,
      enriched, epc>>

vars == <<rankVars, textVars, enrichVars>>

\* --------------------------------------------------------------------------
\* Bounds of the model
\* --------------------------------------------------------------------------
\* the most rows of a multi-row input file
MaxRows == 3
\* the most nodes of an HTML document
MaxNodes == 2
\* the most leads of leads_raw.csv
MaxLeads == 2

\* --------------------------------------------------------------------------
\* Python str operations
\* --------------------------------------------------------------------------
Char(t, i) == SubSeq(t, i, i)

\* p in t
Contains(t, p) ==
    \E i \in 1..(Len(t) - Len(p) + 1) : SubSeq(t, i, i + Len(p) - 1) = p

\* t.startswith(p)
StartsWith(t, p) == Len(p) <= Len(t) /\ SubSeq(t, 1, Len(p)) = p

\* t.endswith(p)
EndsWith(t, p) == Len(p) <= Len(t) /\ SubSeq(t, Len(t) - Len(p) + 1, Len(t)) = p

\* t[n:]
From(t, n) == SubSeq(t, n + 1, Len(t))

\* t.find(c) + 1 for a one-character c (0 when absent)
IndexOf(t, c) ==
    IF \E k \in 1..Len(t) : Char(t, k) = c
    THEN CHOOSE k \in 1..Len(t) :
            Char(t, k) = c /\ \A j \in 1..(k - 1) : Char(t, j) # c
    ELSE 0

UpperChars == "ABCDEFGHIJKLMNOPQRSTUVWXYZ"
LowerChars == "abcdefghijklmnopqrstuvwxyz"
DigitChars == "0123456789"

\* the characters of a str as a set
CharsOf(t) == {Char(t, k) : k \in 1..Len(t)}

UpperSet == CharsOf(UpperChars)
LowerSet == CharsOf(LowerChars)
DigitSet == CharsOf(DigitChars)

IsUpper(c) == c \in UpperSet
IsLower(c) == c \in LowerSet
IsAlpha(c) == IsUpper(c) \/ IsLower(c)
IsDigit(c) == c \in DigitSet
IsSpace(c) == c \in {" ", "\t", "\n", "\r"}

LowerChar(c) ==
    IF IsUpper(c) THEN Char(LowerChars, IndexOf(UpperChars, c)) ELSE c

\* t.lower()
RECURSIVE Lower(_)
Lower(t) == IF t = "" THEN "" ELSE LowerChar(Char(t, 1)) \o Lower(From(t, 1))

RECURSIVE LStrip(_)
LStrip(t) == IF t # "" /\ IsSpace(Char(t, 1)) THEN LStrip(From(t, 1)) ELSE t

RECURSIVE RStrip(_)
RStrip(t) ==
    IF t # "" /\ IsSpace(Char(t, Len(t)))
    THEN RStrip(SubSeq(t, 1, Len(t) - 1)) ELSE t

\* t.strip()
Strip(t) == RStrip(LStrip(t))

\* --------------------------------------------------------------------------
\* int(x) and float(x) on a str
\* --------------------------------------------------------------------------
RECURSIVE Pow10(_)
Pow10(n) == IF n <= 0 THEN 1 ELSE 10 * Pow10(n - 1)

\* digits, single underscores allowed between digits ("1_000")
IsDigitGroup(d) ==
    /\ d # ""
    /\ IsDigit(Char(d, 1))
    /\ IsDigit(Char(d, Len(d)))
    /\ \A i \in 1..Len(d) : IsDigit(Char(d, i)) \/ Char(d, i) = "_"
    /\ ~Contains(d, "__")

RECURSIVE DigitsVal(_)
DigitsVal(d) ==
    IF d = "" THEN 0
    ELSE LET c == Char(d, Len(d))
             r == DigitsVal(SubSeq(d, 1, Len(d) - 1))
         IN  IF c = "_" THEN r ELSE 10 * r + (IndexOf(DigitChars, c) - 1)

RECURSIVE CountDigits(_)
CountDigits(d) ==
    IF d = "" THEN 0
    ELSE (IF IsDigit(Char(d, 1)) THEN 1 ELSE 0) + CountDigits(From(d, 1))

HasSign(s) == s # "" /\ Char(s, 1) \in {"+", "-"}
Unsigned(s) == IF HasSign(s) THEN From(s, 1) ELSE s
SignOf(s) == IF s # "" /\ Char(s, 1) = "-" THEN -1 ELSE 1

\* int(x): [ok |-> FALSE] stands for ValueError
PyInt(x) ==
    LET s == Strip(x)
        b == Unsigned(s)
    IN  IF IsDigitGroup(b)
        THEN [ok |-> TRUE, val |-> SignOf(s) * DigitsVal(b)]
        ELSE [ok |-> FALSE, val |-> 0]

\* int(float(x)): decimal literals with optional fraction and exponent,
\* truncated toward zero; "inf" and "nan" parse as floats but int() of them
\* raises, and anything else is a ValueError.
PyIntOfFloat(x) ==
    LET s    == Strip(x)
        b    == Lower(Unsigned(s))
        ePos == IndexOf(b, "e")
        mant == IF ePos = 0 THEN b ELSE SubSeq(b, 1, ePos - 1)
        expS == IF ePos = 0 THEN "0" ELSE From(b, ePos)
        dPos == IndexOf(mant, ".")
        ip   == IF dPos = 0 THEN mant ELSE SubSeq(mant, 1, dPos - 1)
        fp   == IF dPos = 0 THEN "" ELSE From(mant, dPos)
        okM  == /\ ip = "" \/ IsDigitGroup(ip)
                /\ fp = "" \/ IsDigitGroup(fp)
                /\ ip # "" \/ fp # ""
        okE  == IsDigitGroup(Unsigned(expS))
        e    == SignOf(expS) * DigitsVal(Unsigned(expS))
        sc   == e - CountDigits(fp)
        d    == DigitsVal(ip \o fp)
        mag  == IF sc >= 0 THEN d * Pow10(sc) ELSE d \div Pow10(-sc)
    IN  IF okM /\ okE
        THEN [ok |-> TRUE, val |-> SignOf(s) * mag]
        ELSE [ok |-> FALSE, val |-> 0]

\* to_int's try/except chain over the two conversions' results
FirstParsed(asInt, asFloat, default) ==
    IF asInt.ok THEN asInt.val
    ELSE IF asFloat.ok THEN asFloat.val
    ELSE default

to_int(x, default) == FirstParsed(PyInt(x), PyIntOfFloat(x), default)

\* --------------------------------------------------------------------------
\* score_rank.py: helpers
\* --------------------------------------------------------------------------
IsSchemeChar(c) == IsAlpha(c) \/ IsDigit(c) \/ c \in {"+", "-", "."}

\* the first position of "/", "?" or "#" in t at or after position n
\* (Len(t) + 1 when there is none)
FirstDelim(t, n) ==
    LET hits == {k \in n..Len(t) : Char(t, k) \in {"/", "?", "#"}}
    IN  IF hits = {} THEN Len(t) + 1
        ELSE CHOOSE k \in hits : \A j \in hits : k <= j

\* urlparse(url).netloc: [ok |-> FALSE] stands for the ValueError urlsplit
\* raises on an unbalanced "[" or "]" in the network location.
UrlNetloc(url) ==
    LET i      == IndexOf(url, ":")
        scheme == /\ i > 1
                  /\ IsAlpha(Char(url, 1))
                  /\ \A k \in 1..(i - 1) : IsSchemeChar(Char(url, k))
        rest   == IF scheme THEN From(url, i) ELSE url
        netloc == IF StartsWith(rest, "//")
                  THEN SubSeq(rest, 3, FirstDelim(rest, 3) - 1)
                  ELSE ""
    IN  IF Contains(netloc, "[") # Contains(netloc, "]")
        THEN [ok |-> FALSE, netloc |-> ""]
        ELSE [ok |-> TRUE, netloc |-> netloc]

\* netloc[4:] if netloc.startswith("www.") else netloc
StripWww(netloc) ==
    IF StartsWith(netloc, "www.") THEN From(netloc, 4) ELSE netloc

\* the try block of domain_of on urlparse's outcome p
BareDomain(p) == IF ~p.ok THEN "" ELSE StripWww(Lower(p.netloc))

domain_of(url) == IF url = "" THEN "" ELSE BareDomain(UrlNetloc(url))

\* One line of config/verticals_allow.txt kept by load_allow_terms
KeptLine(ln) == Strip(ln) # "" /\ ~StartsWith(Strip(ln), "#")

\* load_allow_terms(): file is <<"missing">> when open() raises, else
\* <<"lines", the lines of the file>>
load_allow_terms(file) ==
    IF file[1] = "missing" THEN {}
    ELSE {Lower(Strip(file[2][k])) :
            k \in {j \in 1..Len(file[2]) : KeptLine(file[2][j])}}

\* --------------------------------------------------------------------------
\* score_rank.py: scoring rules
\* --------------------------------------------------------------------------
DIRECT ==
    {"ai twin", "ai of me", "digital twin", "chatbot of me", "ai clone",
     "clone my voice", "voice clone", "personal ai", "my ai assistant",
     "ai of myself"}

PAIN ==
    {"scale q&a", "answering the same questions", "too many dms",
     "24/7 answers", "automate q&a", "community q&a",
     "knowledge base of my content", "course support bot"}

PLATFORM_CUES ==
    {"kajabi", "skool", "mighty networks", "mighty", "webflow", "wordpress",
     "teachable", "thinkific", "circle.so", "discord", "slack", "cohort",
     "community platform", "course platform", "support bot", "chatbot"}

AnyIn(phrases, t) == \E p \in phrases : Contains(t, p)

\* intent_score with the PAIN tier tested before the DIRECT tier
intent_score_pain_first(text) ==
    LET t == Lower(text)
    IN  IF AnyIn(PAIN, t) THEN 4
        ELSE IF AnyIn(DIRECT, t) THEN 5
        ELSE IF AnyIn(PLATFORM_CUES, t)
                /\ (Contains(t, "bot") \/ Contains(t, "assistant")
                    \/ Contains(t, "automation") \/ Contains(t, "chatbot"))
             THEN 3
        ELSE IF AnyIn(PLATFORM_CUES, t) THEN 2
        ELSE 1

intent_score(text) ==
    LET t == Lower(text)
    IN  IF AnyIn(DIRECT, t) THEN 5
        ELSE IF AnyIn(PAIN, t) THEN 4
        ELSE IF AnyIn(PLATFORM_CUES, t)
                /\ (Contains(t, "bot") \/ Contains(t, "assistant")
                    \/ Contains(t, "automation") \/ Contains(t, "chatbot"))
             THEN 3
        ELSE IF AnyIn(PLATFORM_CUES, t) THEN 2
        ELSE 1

\* BucketOf with strict comparisons
BucketOfStrict(platform, s) ==
    IF Lower(platform) = "youtube"
    THEN IF s > 100000 THEN 3
         ELSE IF s > 10000 THEN 2
         ELSE IF s > 1000 THEN 1
         ELSE 0
    ELSE IF s > 50 THEN 2
         ELSE IF s > 10 THEN 1
         ELSE 0

\* audience_bucket's thresholds on s = to_int(raw_score, 0)
BucketOf(platform, s) ==
    IF Lower(platform) = "youtube"
    THEN IF s >= 100000 THEN 3
         ELSE IF s >= 10000 THEN 2
         ELSE IF s >= 1000 THEN 1
         ELSE 0
    ELSE IF s >= 50 THEN 2
         ELSE IF s >= 10 THEN 1
         ELSE 0

audience_bucket(platform, raw_score) == BucketOf(platform, to_int(raw_score, 0))

\* contactability_score that gives an email no more than a website
contactability_score_flat(email, website, contact_url) ==
    IF Strip(email) # "" \/ contact_url # "" \/ website # "" THEN 1 ELSE 0

contactability_score(email, website, contact_url) ==
    IF Strip(email) # "" THEN 2
    ELSE IF contact_url # "" \/ website # "" THEN 1
    ELSE 0

\* datetime.now(timezone.utc), as a unix timestamp
NowTs == 1700000000
DaySeconds == 86400

\* timedelta.days is the floor of the difference in days
RecencyOf(ts) ==
    LET days == (NowTs - ts) \div DaySeconds
    IN  IF ts <= 0 THEN 0
        ELSE IF days <= 3 THEN 2
        ELSE IF days <= 7 THEN 1
        ELSE 0

recency_score(created_utc) == RecencyOf(to_int(created_utc, 0))

build_text_index(row) ==
    row.title \o " " \o row.excerpt \o " " \o row.evidence_quote

make_prospect_name(row) ==
    LET h == Strip(row.author_handle)
    IN  IF StartsWith(h, "u/") THEN From(h, 2) ELSE h

\* KeyOf without the kind of the key
KeyOfUntagged(row, email, dom) ==
    IF email # "" THEN <<"id", email>>
    ELSE IF dom # "" THEN <<"id", dom>>
    ELSE <<"handle", <<row.platform, row.author_handle>>>>

\* dedupe_key's choice among email, dom and the handle pair
KeyOf(row, email, dom) ==
    IF email # "" THEN <<"email", email>>
    ELSE IF dom # "" THEN <<"domain", dom>>
    ELSE <<"handle", <<row.platform, row.author_handle>>>>

dedupe_key(row) == KeyOf(row, Lower(Strip(row.email)), domain_of(row.website))

\* --------------------------------------------------------------------------
\* score_rank.py: the script
\* --------------------------------------------------------------------------
\* vertical bonus (+1) if an allowlisted term appears in evidence/title/excerpt
vertical_bonus(r, terms) ==
    LET v_text == Lower(r.evidence_quote \o " " \o r.title \o " " \o r.excerpt)
    IN  IF \E term \in terms : Contains(v_text, term) THEN 1 ELSE 0

\* TotalScore without the doubling of intent
TotalScoreUndoubled(i_score, aud_bucket, c_score, f_score, v_bonus) ==
    i_score + aud_bucket + c_score + f_score + v_bonus

TotalScore(i_score, aud_bucket, c_score, f_score, v_bonus) ==
    i_score * 2 + aud_bucket + c_score + f_score + v_bonus

\* The row appended to scored (lines 176-195) from the loop's locals.  idx,
\* aud_bucket and vertical_bonus are locals recorded beside the written
\* fields; the pass-through fields company, evidence_url, created_date,
\* source_title and source_excerpt are left out.
ScoredFields(r, idx, platform, aud_raw, aud, i_score, c_score, f_score, v_bonus) ==
    [idx                  |-> idx,
     platform             |-> r.platform,
     prospect_name        |-> make_prospect_name(r),
     audience_type        |-> IF platform = "youtube" THEN "yt_subscribers"
                              ELSE "reddit_upvotes",
     audience_metric      |-> aud_raw,
     aud_bucket           |-> aud,
     intent_score         |-> i_score,
     contactability_score |-> c_score,
     freshness_score      |-> f_score,
     vertical_bonus       |-> v_bonus,
     total_score          |-> TotalScore(i_score, aud, c_score, f_score, v_bonus),
     website              |-> r.website,
     email                |-> r.email,
     contact_url          |-> r.contact_url,
     author_handle        |-> r.author_handle]

\* The scores of one pass (lines 155-164) from platform and aud_raw
ScoredWith(r, idx, platform, aud_raw, terms) ==
    ScoredFields(r, idx, platform, aud_raw,
                 audience_bucket(platform, aud_raw),
                 intent_score(build_text_index(r)),
                 contactability_score(r.email, r.website, r.contact_url),
                 recency_score(r.created_utc),
                 vertical_bonus(r, terms))

\* One pass of the scoring loop for input row r, the idx-th of the file
ScoredRow(r, idx, terms) ==
    ScoredWith(r, idx, Lower(r.platform),
               IF r.score # "" THEN r.score ELSE "0", terms)

\* an ascending sort reversed: rows of equal total_score change places
InsertBestUnstable(sorted, r) ==
    LET later == {j \in 1..Len(sorted) : sorted[j].total_score <= r.total_score}
        at    == IF later = {} THEN Len(sorted) + 1
                 ELSE CHOOSE j \in later : \A k \in later : j <= k
    IN  SubSeq(sorted, 1, at - 1) \o <<r>> \o SubSeq(sorted, at, Len(sorted))

\* list.sort(key=total_score, reverse=True) is stable: a row goes after every
\* row already placed whose total_score is at least its own.
InsertBest(sorted, r) ==
    LET later == {j \in 1..Len(sorted) : sorted[j].total_score < r.total_score}
        at    == IF later = {} THEN Len(sorted) + 1
                 ELSE CHOOSE j \in later : \A k \in later : j <= k
    IN  SubSeq(sorted, 1, at - 1) \o <<r>> \o SubSeq(sorted, at, Len(sorted))

RECURSIVE SortBest(_)
SortBest(s) ==
    IF s = <<>> THEN <<>>
    ELSE InsertBest(SortBest(SubSeq(s, 1, Len(s) - 1)), s[Len(s)])

\* One pass of the dedupe loop over st = [seen, deduped]
\* SeenStep that lets a later row of a key take the place of the kept one
SeenStepKeepLast(st, row, key) ==
    IF key \in st.seen
    THEN [st EXCEPT !.deduped =
            [i \in DOMAIN st.deduped |->
                IF dedupe_key(st.deduped[i]) = key THEN row ELSE st.deduped[i]]]
    ELSE [seen |-> st.seen \cup {key}, deduped |-> Append(st.deduped, row)]

\* SeenStep that forgets a key once it has dropped a row for it
SeenStepForgetful(st, row, key) ==
    IF key \in st.seen THEN [st EXCEPT !.seen = @ \ {key}]
    ELSE [seen |-> st.seen \cup {key}, deduped |-> Append(st.deduped, row)]

SeenStep(st, row, key) ==
    IF key \in st.seen THEN st
    ELSE [seen |-> st.seen \cup {key}, deduped |-> Append(st.deduped, row)]

DedupeStep(st, row) == SeenStep(st, row, dedupe_key(row))

\* The whole dedupe loop
RECURSIVE DedupeFrom(_, _)
DedupeFrom(st, s) ==
    IF s = <<>> THEN st ELSE DedupeFrom(DedupeStep(st, Head(s)), Tail(s))

DedupeAll(s) == DedupeFrom([seen |-> {}, deduped |-> <<>>], s).deduped

\* ---- inputs ----
BaseRow ==
    [platform |-> "reddit", author_handle |-> "u/bob", title |-> "",
     excerpt |-> "", evidence_quote |-> "", score |-> "5",
     created_utc |-> "0", website |-> "", contact_url |-> "", email |-> ""]

Platforms == {"youtube", "YouTube", "reddit", ""}

Scores ==
    {"", "abc", "inf", "-3", "5", "9", "10", "49", "49.9", " 50 ", "999",
     "1_000", "9999.9", "1e4", "99999", "100000", "150000"}

Titles == {"", "My AI Clone", "Too many DMs", "Kajabi tips", "ai"}

Excerpts ==
    {"", "clone my voice please", "answering the same questions",
     "need automation for Discord", "assistant wanted", "twin of a bottle"}

Quotes == {"", "course support bot", "sales coaching on skool", "Yoga"}

Emails == {"", " ", "bob@acme.io", " Bob@Acme.io "}

Websites == {"", "https://www.acme.io/about", "acme.io"}

ContactUrls == {"", "https://acme.io/contact"}

CreatedUtcs ==
    {"", "0", "-5", "soon", "1700009000", "1699999000", "1699740800",
     "1699740799", "1699600000", "1699395199", "1690000000"}

AllowFiles ==
    {<<"missing">>,
     <<"lines", <<>>>>,
     <<"lines", <<"# verticals\n", "Sales Coaching\n", "\n", " yoga \n">>>>}

\* inputs of one row, each varying one group of fields
SingleRows ==
    {[BaseRow EXCEPT !.platform = p, !.score = s] : p \in Platforms, s \in Scores}
    \cup {[BaseRow EXCEPT !.title = a, !.excerpt = b, !.evidence_quote = c] :
            a \in Titles, b \in Excerpts, c \in Quotes}
    \cup {[BaseRow EXCEPT !.email = e, !.website = w, !.contact_url = c] :
            e \in Emails, w \in Websites, c \in ContactUrls}
    \cup {[BaseRow EXCEPT !.created_utc = t] : t \in CreatedUtcs}

\* rows of the multi-row inputs: some share an identity, some a total_score
PoolRows ==
    {[BaseRow EXCEPT !.email = "a@x.io", !.score = "60"],
     [BaseRow EXCEPT !.email = " A@X.io ", !.website = "https://www.x.io/"],
     [BaseRow EXCEPT !.website = "https://WWW.x.io/about"],
     [BaseRow EXCEPT !.website = "http://x.io", !.score = "60"],
     BaseRow,
     [BaseRow EXCEPT !.website = "x.io", !.score = "60"],
     [BaseRow EXCEPT !.email = " ", !.website = "http://x.io"],
     [BaseRow EXCEPT !.email = "x.io"]}

SeqsUpTo(S, n) == UNION {[1..m -> S] : m \in 0..n}

\* FIELDS
FIELDS ==
    <<"platform", "prospect_name", "company", "audience_type", "audience_metric",
      "intent_score", "contactability_score", "freshness_score", "total_score",
      "website", "email", "contact_url", "evidence_url", "evidence_quote",
      "created_date", "source_title", "source_excerpt", "author_handle">>

\* the field list of the write_csv call of the missing-input branch
EMPTY_FIELDS ==
    <<"platform", "prospect_name", "company", "audience_type", "audience_metric",
      "intent_score", "contactability_score", "freshness_score", "total_score",
      "website", "email", "contact_url", "evidence_url", "evidence_quote",
      "created_date", "source_title", "source_excerpt", "author_handle">>

\* enrich_contacts.py not run
EnrichIdle ==
    /\ rawExists = FALSE
    /\ dataDir = FALSE
    /\ leads = <<>>
    /\ world = <<>>
    /\ lead_i = 0
    /\ candidates = <<>>
    /\ cand_i = 0
    /\ lead_website = ""
    /\ lead_contact_url = ""
    /\ lead_company = ""
    /\ lead_emails = {}
    /\ probes = <<>>
    /\ out_rows = <<>>
    /\ rerun_rows = <<>>
    /\ enriched = <<>>
    /\ epc = "idle"

\* the text utilities at rest
TextIdle ==
    /\ page = <<>>
    /\ emails = {}
    /\ in_text = ""
    /\ urls = <<>>
    /\ called = {}

Init ==
    /\ TextIdle
    /\ EnrichIdle
    /\ \/ /\ inExists = TRUE
          /\ outDir = TRUE
          /\ rows \in {<<r>> : r \in SingleRows}
          /\ allowFile \in AllowFiles
       \/ /\ inExists = TRUE
          /\ outDir = TRUE
          /\ rows \in SeqsUpTo(PoolRows, MaxRows)
          /\ allowFile = <<"lines", <<>>>>
       \/ /\ inExists = FALSE
          /\ outDir \in BOOLEAN
          /\ rows = <<>>
          /\ allowFile \in AllowFiles
    /\ outFields = <<>>
    /\ allow = load_allow_terms(allowFile)
    /\ scored = <<>>
    /\ pos = 0
    /\ seen = {}
    /\ deduped = <<>>
    /\ out = <<>>
    /\ pc = "score"

\* for r in rows: ... scored.append({...})
ScoreRow ==
    /\ pc = "score"
    /\ inExists
    /\ Len(scored) < Len(rows)
    /\ scored' = Append(scored, ScoredRow(rows[Len(scored) + 1], Len(scored) + 1, allow))
    /\ UNCHANGED <<inExists, outDir, rows, allowFile, allow, pos, seen, deduped, out, outFields, pc>>
    /\ UNCHANGED <<textVars, enrichVars>>

\* scored.sort(key=lambda x: x["total_score"], reverse=True); seen=set(); deduped=[]
SortScored ==
    /\ pc = "score"
    /\ inExists
    /\ Len(scored) = Len(rows)
    /\ scored' = SortBest(scored)
    /\ pos' = 0
    /\ seen' = {}
    /\ deduped' = <<>>
    /\ pc' = "dedupe"
    /\ UNCHANGED <<inExists, outDir, rows, allowFile, allow, out, outFields>>
    /\ UNCHANGED <<textVars, enrichVars>>

\* for row in scored: key = dedupe_key(row); ...
DedupeRow ==
    /\ pc = "dedupe"
    /\ pos < Len(scored)
    /\ \E st \in {DedupeStep([seen |-> seen, deduped |-> deduped], scored[pos + 1])} :
           /\ seen' = st.seen
           /\ deduped' = st.deduped
    /\ pos' = pos + 1
    /\ UNCHANGED <<inExists, outDir, rows, allowFile, allow, scored, out, outFields, pc>>
    /\ UNCHANGED <<textVars, enrichVars>>

\* write_csv(OUT_PATH, deduped, FIELDS)
WriteOut ==
    /\ pc = "dedupe"
    /\ pos = Len(scored)
    /\ out' = deduped
    /\ outFields' = FIELDS
    /\ pc' = "done"
    /\ UNCHANGED <<inExists, outDir, rows, allowFile, allow, scored, pos, seen, deduped>>
    /\ UNCHANGED <<textVars, enrichVars>>

\* if not os.path.exists(IN_PATH): write_csv(OUT_PATH, [], [...]); raise SystemExit(0)
\* open(OUT_PATH, "w") raises FileNotFoundError when the directory is missing
WriteEmptyOut ==
    /\ pc = "score"
    /\ ~inExists
    /\ out' = <<>>
    /\ outFields' = IF outDir THEN EMPTY_FIELDS ELSE <<>>
    /\ pc' = IF outDir THEN "done" ELSE "failed"
    /\ UNCHANGED <<inExists, outDir, rows, allowFile, allow, scored, pos, seen, deduped>>
    /\ UNCHANGED <<textVars, enrichVars>>

Next == ScoreRow \/ SortScored \/ DedupeRow \/ WriteOut \/ WriteEmptyOut

Spec == Init /\ [][Next]_vars

\* --------------------------------------------------------------------------
\* Properties of score_rank.py
\* --------------------------------------------------------------------------
\* the positions of the sorted rows that are not in the output
Dropped ==
    {i \in 1..Len(scored) : \A j \in 1..Len(out) : out[j].idx # scored[i].idx}

\* the identity of a row as the specification words it
IdentityKind(row) ==
    IF Lower(Strip(row.email)) # "" THEN "email"
    ELSE IF domain_of(row.website) # "" THEN "domain"
    ELSE "handle"

IdentityValue(row) ==
    IF Lower(Strip(row.email)) # "" THEN Lower(Strip(row.email))
    ELSE IF domain_of(row.website) # "" THEN domain_of(row.website)
    ELSE <<row.platform, row.author_handle>>

\* C1: the output holds at most one row per identity key, and every dropped
\* row has a surviving row of the same key whose total_score is at least its
\* own.
Thm_C1 ==
    pc = "done" =>
        /\ \A i, j \in 1..Len(out) :
              i # j => dedupe_key(out[i]) # dedupe_key(out[j])
        /\ \A i \in Dropped : \E j \in 1..Len(out) :
              /\ dedupe_key(out[j]) = dedupe_key(scored[i])
              /\ out[j].total_score >= scored[i].total_score

\* two leads of one email and different totals: the lower one was dropped
Witness_C1 ==
    /\ pc = "done"
    /\ \E i \in Dropped : \E j \in 1..Len(out) :
          /\ dedupe_key(scored[i])[1] = "email"
          /\ dedupe_key(out[j]) = dedupe_key(scored[i])
          /\ out[j].total_score > scored[i].total_score

\* C2: the key is the trimmed lowercased email if that is non-empty, else the
\* bare domain of website if that is non-empty, else the (platform,
\* author_handle) pair; and a row is only ever dropped for a surviving row of
\* the same kind of identity and the same value.
Thm_C2 ==
    /\ \A i \in 1..Len(scored) :
          dedupe_key(scored[i])
              = <<IdentityKind(scored[i]), IdentityValue(scored[i])>>
    /\ pc = "done" =>
          \A i \in Dropped : \E j \in 1..Len(out) :
              /\ IdentityKind(out[j]) = IdentityKind(scored[i])
              /\ IdentityValue(out[j]) = IdentityValue(scored[i])

\* an email-keyed row and a domain-keyed row of the same string both survive,
\* and a row without email or domain is keyed by its handle
Witness_C2 ==
    /\ pc = "done"
    /\ \E i, j \in 1..Len(out) :
          /\ IdentityKind(out[i]) = "email"
          /\ IdentityKind(out[j]) = "domain"
          /\ IdentityValue(out[i]) = IdentityValue(out[j])
    /\ \E i \in 1..Len(out) : dedupe_key(out[i])[1] = "handle"

\* C3: the output is ordered by total_score, highest first, and rows of
\* equal total_score keep the order of their rows in the input.
Thm_C3 ==
    pc = "done" =>
        \A i, j \in 1..Len(out) :
            i < j =>
                /\ out[i].total_score >= out[j].total_score
                /\ out[i].total_score = out[j].total_score
                      => out[i].idx < out[j].idx

\* an output with a tie, the higher-scoring row of which came later in the
\* input than a lower-scoring one
Witness_C3 ==
    /\ pc = "done"
    /\ \E i, j \in 1..Len(out) :
          i < j /\ out[i].total_score = out[j].total_score
    /\ \E i, j \in 1..Len(out) :
          i < j /\ out[i].total_score > out[j].total_score /\ out[i].idx > out[j].idx

\* C4: the dedupe loop run on its own output returns that output.
Thm_C4 == pc = "done" => DedupeAll(out) = out

\* the first run dropped a row and kept several
Witness_C4 == pc = "done" /\ Dropped # {} /\ Len(out) >= 2

\* the scored rows i and j agree on every score but contactability
SameOtherScores(i, j) ==
    /\ scored[i].intent_score = scored[j].intent_score
    /\ scored[i].aud_bucket = scored[j].aud_bucket
    /\ scored[i].freshness_score = scored[j].freshness_score
    /\ scored[i].vertical_bonus = scored[j].vertical_bonus

Sorted == pc \in {"dedupe", "done"}

\* C5 as stated: of two rows equal in intent, audience, freshness and
\* vertical bonus, one with a non-empty email totals strictly more than one
\* with an empty email and stands before it in the sorted rows.
Claim_C5 ==
    Sorted =>
        \A i, j \in 1..Len(scored) :
            (/\ SameOtherScores(i, j)
             /\ scored[i].email # ""
             /\ scored[j].email = "")
            => scored[i].total_score > scored[j].total_score /\ i < j

\* C5 amended: the email counts when it is non-empty after trimming
\* whitespace, and the other row's email is empty or blank.
Thm_C5 ==
    Sorted =>
        \A i, j \in 1..Len(scored) :
            (/\ SameOtherScores(i, j)
             /\ Strip(scored[i].email) # ""
             /\ Strip(scored[j].email) = "")
            => scored[i].total_score > scored[j].total_score /\ i < j

\* a row with an email sorted ahead of a row with a website and no email that
\* came before it in the input
Witness_C5 ==
    /\ Sorted
    /\ \E i, j \in 1..Len(scored) :
          /\ SameOtherScores(i, j)
          /\ Strip(scored[i].email) # ""
          /\ Strip(scored[j].email) = ""
          /\ scored[j].website # ""
          /\ scored[i].idx > scored[j].idx

\* the lowercased text intent_score scans for the scored row s
IntentText(s) == Lower(build_text_index(rows[s.idx]))

HasCue(t) == \E p \in PLATFORM_CUES : Contains(t, p)

\* C6 as stated: tier 3 needs a platform cue and one of the words
\* automation, bot, chatbot.
Claim_C6 ==
    \A i \in 1..Len(scored) :
        LET t == IntentText(scored[i])
        IN  scored[i].intent_score =
                IF \E p \in DIRECT : Contains(t, p) THEN 5
                ELSE IF \E p \in PAIN : Contains(t, p) THEN 4
                ELSE IF HasCue(t) /\ \E w \in {"automation", "bot", "chatbot"} :
                                        Contains(t, w)
                     THEN 3
                ELSE IF HasCue(t) THEN 2
                ELSE 1

\* C6 amended: tier 3 needs a platform cue and an occurrence of bot,
\* assistant, automation or chatbot; the first matching tier wins and the
\* result is in 1..5.
Thm_C6 ==
    \A i \in 1..Len(scored) :
        LET t == IntentText(scored[i])
        IN  /\ scored[i].intent_score \in 1..5
            /\ scored[i].intent_score =
                IF \E p \in DIRECT : Contains(t, p) THEN 5
                ELSE IF \E p \in PAIN : Contains(t, p) THEN 4
                ELSE IF HasCue(t)
                        /\ \E w \in {"automation", "bot", "chatbot", "assistant"} :
                              Contains(t, w)
                     THEN 3
                ELSE IF HasCue(t) THEN 2
                ELSE 1

\* a text with a direct phrase and a pain-point phrase scored 5
Witness_C6 ==
    \E i \in 1..Len(scored) :
        /\ \E p \in DIRECT : Contains(IntentText(scored[i]), p)
        /\ \E p \in PAIN : Contains(IntentText(scored[i]), p)
        /\ scored[i].intent_score = 5

\* C7: total_score is intent_score*2 + audience_bucket + contactability_score
\* + freshness_score + vertical_bonus, and vertical_bonus is 1 exactly when an
\* allowlist term occurs in the lowercased evidence_quote+title+excerpt text
\* (so 0 when the allowlist is empty or unreadable).
Thm_C7 ==
    \A i \in 1..Len(scored) :
        LET s == scored[i]
            r == rows[s.idx]
            v_text == Lower(r.evidence_quote \o " " \o r.title \o " " \o r.excerpt)
        IN  /\ s.total_score = s.intent_score * 2 + s.aud_bucket
                                + s.contactability_score + s.freshness_score
                                + s.vertical_bonus
            /\ s.vertical_bonus \in {0, 1}
            /\ s.vertical_bonus = 1 <=> \E term \in allow : Contains(v_text, term)
            /\ (allowFile[1] = "missing" \/ allow = {}) => s.vertical_bonus = 0

\* a row that earned the vertical bonus with an intent above 1
Witness_C7 ==
    \E i \in 1..Len(scored) :
        /\ scored[i].vertical_bonus = 1
        /\ scored[i].intent_score > 1
        /\ scored[i].total_score = scored[i].intent_score * 2 + 1

\* the value of each raw score of the inputs, in tenths
ScoreTenths ==
    [s \in Scores \cup {"60"} |->
        CASE s = "-3" -> -30
          [] s = "5" -> 50
          [] s = "9" -> 90
          [] s = "10" -> 100
          [] s = "49" -> 490
          [] s = "49.9" -> 499
          [] s = " 50 " -> 500
          [] s = "60" -> 600
          [] s = "999" -> 9990
          [] s = "1_000" -> 10000
          [] s = "9999.9" -> 99999
          [] s = "1e4" -> 100000
          [] s = "99999" -> 999990
          [] s = "100000" -> 1000000
          [] s = "150000" -> 1500000
          [] OTHER -> 0]

\* the raw scores that are missing or not a finite number
NonNumericScores == {"", "abc", "inf"}

\* C8: a youtube row (in any case) gets 3 from 100000, 2 from 10000, 1 from
\* 1000, else 0; any other platform gets 2 from 50, 1 from 10, else 0; a
\* missing or non-numeric raw score gets 0.
Thm_C8 ==
    \A i \in 1..Len(scored) :
        LET s == scored[i]
            r == rows[s.idx]
            v == ScoreTenths[r.score]
        IN  /\ s.aud_bucket =
                IF r.platform \in {"youtube", "YouTube"}
                THEN IF v >= 1000000 THEN 3
                     ELSE IF v >= 100000 THEN 2
                     ELSE IF v >= 10000 THEN 1
                     ELSE 0
                ELSE IF v >= 500 THEN 2
                     ELSE IF v >= 100 THEN 1
                     ELSE 0
            /\ r.score \in NonNumericScores => s.aud_bucket = 0

\* a "YouTube" row at the top threshold, scored 3
Witness_C8 ==
    \E i \in 1..Len(scored) :
        /\ rows[scored[i].idx].platform = "YouTube"
        /\ rows[scored[i].idx].score = "100000"
        /\ scored[i].aud_bucket = 3

\* --------------------------------------------------------------------------
\* enrich_contacts.py: regular expressions
\* --------------------------------------------------------------------------
\* t[i] when there is one, else ""
CharAt(t, i) == IF i \in 1..Len(t) THEN Char(t, i) ELSE ""

\* \s
IsReSpace(c) == c \in {" ", "\t", "\n", "\r", "\f"}

\* [A-Z0-9._%+-] under re.I
IsLocalChar(c) ==
    c # "" /\ (IsAlpha(c) \/ IsDigit(c) \/ c \in {".", "_", "%", "+", "-"})

\* [A-Z0-9.-] under re.I
IsDomainChar(c) == c # "" /\ (IsAlpha(c) \/ IsDigit(c) \/ c \in {".", "-"})

\* [A-Z] under re.I
IsLetter(c) == c # "" /\ IsAlpha(c)

\* [^\s)\]]
IsUrlChar(c) == c # "" /\ ~IsReSpace(c) /\ c \notin {")", "]"}

\* the character classes of EMAIL_RE and URL_RE
InClass(cls, c) ==
    CASE cls = "local" -> IsLocalChar(c)
      [] cls = "domain" -> IsDomainChar(c)
      [] cls = "letter" -> IsLetter(c)
      [] cls = "url" -> IsUrlChar(c)
      [] cls = "id" -> c # "" /\ (IsLower(c) \/ IsDigit(c))

\* the last position of the longest run of characters of class cls of t that
\* starts at position i (i - 1 when t[i] is not in the class)
\* the last position of the longest run of characters of class cls of t that
\* starts at position i (i - 1 when t[i] is not in the class)
RunEnd(t, i, cls) ==
    IF i > Len(t) THEN i - 1
    ELSE IF \A j \in i..Len(t) : InClass(cls, Char(t, j)) THEN Len(t)
    ELSE (CHOOSE j \in i..Len(t) :
            /\ ~InClass(cls, Char(t, j))
            /\ \A k \in i..(j - 1) : InClass(cls, Char(t, k))) - 1

\* EMAIL_RE after the "@": the domain run d0..m is given back greedily until
\* a "." followed by two letters is found; the match ends with the letters.
\* 0: no match.
DomainEnd(t, d0, m) ==
    LET cuts == {e \in d0..(m - 1) :
                    /\ Char(t, e + 1) = "."
                    /\ IsLetter(CharAt(t, e + 2))
                    /\ IsLetter(CharAt(t, e + 3))}
    IN  IF cuts = {} THEN 0
        ELSE RunEnd(t, (CHOOSE e \in cuts : \A k \in cuts : k <= e) + 2, "letter")

\* EMAIL_RE after the local part i..j
AfterLocal(t, i, j) ==
    IF j < i \/ CharAt(t, j + 1) # "@" THEN 0
    ELSE DomainEnd(t, j + 2, RunEnd(t, j + 2, "domain"))

\* EMAIL_RE.match at position i: the last position of the match, 0 if none
EmailMatchEnd(t, i) == AfterLocal(t, i, RunEnd(t, i, "local"))

\* URL_RE.match at position i: the last position of the match, 0 if none
UrlMatchEnd(t, i) ==
    LET body == IF StartsWith(From(t, i - 1), "http://") THEN i + 7
                ELSE IF StartsWith(From(t, i - 1), "https://") THEN i + 8
                ELSE 0
    IN  IF body = 0 \/ ~IsUrlChar(CharAt(t, body)) THEN 0
        ELSE RunEnd(t, body, "url")

\* the first position from i on where EMAIL_RE matches (0: nowhere)
FirstEmailAt(t, i) ==
    IF \A j \in i..Len(t) : EmailMatchEnd(t, j) = 0 THEN 0
    ELSE CHOOSE j \in i..Len(t) :
            /\ EmailMatchEnd(t, j) # 0
            /\ \A k \in i..(j - 1) : EmailMatchEnd(t, k) = 0

\* EMAIL_RE.findall: the matches of t from position i on, left to right,
\* each search resuming after the last match (i: where the next match
\* starts, 0 when there is none; q: where it ends)
RECURSIVE FindEmails(_, _)
EmailsAfter(t, i, q) == <<SubSeq(t, i, q)>> \o FindEmails(t, q + 1)

EmailsFrom(t, i) == IF i = 0 THEN <<>> ELSE EmailsAfter(t, i, EmailMatchEnd(t, i))

FindEmails(t, i) == EmailsFrom(t, FirstEmailAt(t, i))

\* the first position from i on where URL_RE matches (0: nowhere)
FirstUrlAt(t, i) ==
    IF \A j \in i..Len(t) : UrlMatchEnd(t, j) = 0 THEN 0
    ELSE CHOOSE j \in i..Len(t) :
            /\ UrlMatchEnd(t, j) # 0
            /\ \A k \in i..(j - 1) : UrlMatchEnd(t, k) = 0

\* URL_RE.findall
RECURSIVE FindUrls(_, _)
UrlsAfter(t, i, q) == <<SubSeq(t, i, q)>> \o FindUrls(t, q + 1)

UrlsFrom(t, i) == IF i = 0 THEN <<>> ELSE UrlsAfter(t, i, UrlMatchEnd(t, i))

FindUrls(t, i) == UrlsFrom(t, FirstUrlAt(t, i))

Range(s) == {s[k] : k \in 1..Len(s)}

\* --------------------------------------------------------------------------
\* enrich_contacts.py: extract_urls, extract_emails
\* --------------------------------------------------------------------------
\* u.rstrip(").,]")
RECURSIVE RStripUrl(_)
RStripUrl(u) ==
    IF u # "" /\ Char(u, Len(u)) \in {")", ".", ",", "]"}
    THEN RStripUrl(SubSeq(u, 1, Len(u) - 1)) ELSE u

\* the seen/out loop of extract_urls
RECURSIVE Unique(_)
Unique(s) ==
    IF s = <<>> THEN <<>>
    ELSE IF s[Len(s)] \in Range(SubSeq(s, 1, Len(s) - 1))
         THEN Unique(SubSeq(s, 1, Len(s) - 1))
         ELSE Append(Unique(SubSeq(s, 1, Len(s) - 1)), s[Len(s)])

MapRStripUrl(s) == [k \in 1..Len(s) |-> RStripUrl(s[k])]

extract_urls(t) ==
    IF t = "" THEN <<>> ELSE Unique(MapRStripUrl(FindUrls(t, 1)))

\* An HTML document is a sequence of nodes: text, [tag |-> "text", s |-> ...],
\* anchors, [tag |-> "a", href |-> ..., s |-> ...], and title elements,
\* [tag |-> "title", s |-> ...].  Its source is the nodes written out;
\* BeautifulSoup gives back the anchors with their href values as written.
NodeSource(n) ==
    IF n.tag = "a" THEN "<a href=\"" \o n.href \o "\">" \o n.s \o "</a>"
    ELSE IF n.tag = "title" THEN "<title>" \o n.s \o "</title>"
    ELSE n.s

RECURSIVE Source(_)
Source(doc) ==
    IF doc = <<>> THEN "" ELSE NodeSource(Head(doc)) \o Source(Tail(doc))

\* a["href"][7:] of the anchors whose href starts with mailto: in any case
MailtoValues(doc) ==
    {From(doc[k].href, 7) :
        k \in {j \in 1..Len(doc) :
                 doc[j].tag = "a" /\ StartsWith(Lower(doc[j].href), "mailto:")}}

\* the return of extract_emails: the filter reads e, the result holds e.strip()
KeptEmails(found) ==
    {Strip(e) : e \in {x \in found : ~EndsWith(Lower(x), "@example.com")}}

extract_emails(doc) ==
    IF Source(doc) = "" THEN {}
    ELSE KeptEmails(Range(FindEmails(Source(doc), 1))
                    \cup MailtoValues(doc))

\* ---- inputs ----
Nodes ==
    {[tag |-> "text", s |-> "Write bob@acme.io or Sales@Acme.IO."],
     [tag |-> "text", s |-> "demo: jane@example.com, x@Example.COM"],
     [tag |-> "text", s |-> "no address here"],
     [tag |-> "a", href |-> "mailto:press@acme.io", s |-> "mail us"],
     [tag |-> "a", href |-> "mailto:joe@example.com ", s |-> "joe"],
     [tag |-> "a", href |-> "MAILTO:Amy@Example.com", s |-> "amy"],
     [tag |-> "a", href |-> "mailto: ceo@acme.io ", s |-> "ceo"],
     [tag |-> "a", href |-> "https://acme.io/contact", s |-> "contact"]}

Texts ==
    {"", "no links", "see https://acme.io/about.",
     "(http://acme.io/a), http://acme.io/a",
     "https://www.reddit.com/r/x/comments/abc/ and https://acme.io",
     "img https://i.redd.it/p.png]",
     "http://a.io http://b.io, http://a.io.",
     "https:// HTTPS://ACME.IO http://"}

RankIdle ==
    /\ inExists = FALSE
    /\ outDir = FALSE
    /\ rows = <<>>
    /\ allowFile = <<"missing">>
    /\ allow = {}
    /\ scored = <<>>
    /\ pos = 0
    /\ seen = {}
    /\ deduped = <<>>
    /\ out = <<>>
    /\ outFields = <<>>
    /\ pc = "idle"

InitText ==
    /\ RankIdle
    /\ EnrichIdle
    /\ page \in SeqsUpTo(Nodes, MaxNodes)
    /\ in_text \in Texts
    /\ emails = {}
    /\ urls = <<>>
    /\ called = {}

\* emails = extract_emails(html)
ExtractEmails ==
    /\ "extract_emails" \notin called
    /\ emails' = extract_emails(page)
    /\ called' = called \cup {"extract_emails"}
    /\ UNCHANGED <<page, in_text, urls>>
    /\ UNCHANGED <<rankVars, enrichVars>>

\* urls = extract_urls(text)
ExtractUrls ==
    /\ "extract_urls" \notin called
    /\ urls' = extract_urls(in_text)
    /\ called' = called \cup {"extract_urls"}
    /\ UNCHANGED <<page, in_text, emails>>
    /\ UNCHANGED <<rankVars, enrichVars>>

NextText == ExtractEmails \/ ExtractUrls

SpecText == InitText /\ [][NextText]_vars

\* --------------------------------------------------------------------------
\* Properties of the text utilities
\* --------------------------------------------------------------------------
\* C9: no address extract_emails returns ends in @example.com, in any case,
\* whether it came from the text or from a mailto: href.
Claim_C9 ==
    "extract_emails" \in called =>
        \A e \in emails : ~EndsWith(Lower(e), "@example.com")

\* a mailto: href with a trailing blank passes the @example.com filter and is
\* returned trimmed
Witness_C9 ==
    /\ "extract_emails" \in called
    /\ \E k \in 1..Len(page) :
          page[k].tag = "a" /\ page[k].href = "mailto:joe@example.com "
    /\ "joe@example.com" \in emails

\* C10: extract_urls returns the http(s) URLs in first-seen order, without
\* duplicates, without a trailing ".", ")", "]" or ",", and none of them
\* contains reddit.com or redd.it.
Claim_C10 ==
    "extract_urls" \in called =>
        /\ \A i, j \in 1..Len(urls) : i # j => urls[i] # urls[j]
        /\ \A i \in 1..Len(urls) :
              /\ StartsWith(urls[i], "http://") \/ StartsWith(urls[i], "https://")
              /\ CharAt(urls[i], Len(urls[i])) \notin {".", ")", "]", ","}
              /\ ~Contains(urls[i], "reddit.com")
              /\ ~Contains(urls[i], "redd.it")

\* a reddit.com URL of the text is returned
Witness_C10 ==
    /\ "extract_urls" \in called
    /\ Contains(in_text, "reddit.com")
    /\ \E i \in 1..Len(urls) : Contains(urls[i], "reddit.com")

\* --------------------------------------------------------------------------
\* enrich_contacts.py: fetching, hubs, the site prober
\* --------------------------------------------------------------------------
HUB_DOMAINS ==
    <<"linktr.ee", "beacons.ai", "solo.to", "withkoji", "koji.to", "carrd.co",
      "tap.bio", "shor.by">>

COMMON_PATHS ==
    <<"contact", "contact-us", "about", "about-us", "press", "media",
      "speaking", "speaker", "partners", "partnerships", "work-with-me",
      "workwithme", "book", "booking", "sponsor", "sponsorship", "privacy",
      "privacy-policy", "terms", "support", "help">>

PREFER_ORDER ==
    <<"speaking", "press", "media", "partnership", "sponsor", "booking",
      "ceo", "founder", "hello", "team", "contact", "info", "support">>

\* s[:n]
FirstN(s, n) == SubSeq(s, 1, IF Len(s) < n THEN Len(s) ELSE n)

\* safe_get(url) in the external state w: the document served for url with a
\* status below 400; <<>> (source "") for every request that raises, every
\* status from 400 on, and every url that requests cannot send
safe_get(w, url) == IF url \in DOMAIN w.web THEN w.web[url] ELSE <<>>

\* the body of page_title on the text t of the first title element
TitleOf(t) == IF t = "" THEN "" ELSE FirstN(Strip(t), 200)

page_title(doc) ==
    IF \A k \in 1..Len(doc) : doc[k].tag # "title" THEN ""
    ELSE TitleOf(doc[CHOOSE k \in 1..Len(doc) :
                       /\ doc[k].tag = "title"
                       /\ \A j \in 1..(k - 1) : doc[j].tag # "title"].s)

add_trailing_slash(u) == IF EndsWith(u, "/") THEN u ELSE u \o "/"

\* the last position of "/" in t (0 when there is none)
LastSlash(t) ==
    IF \A k \in 1..Len(t) : Char(t, k) # "/" THEN 0
    ELSE CHOOSE k \in 1..Len(t) :
            Char(t, k) = "/" /\ \A j \in (k + 1)..Len(t) : Char(t, j) # "/"

\* t up to its query or fragment
BeforeQuery(t) ==
    LET hits == {k \in 1..Len(t) : Char(t, k) \in {"?", "#"}}
    IN  IF hits = {} THEN t
        ELSE SubSeq(t, 1, (CHOOSE k \in hits : \A j \in hits : k <= j) - 1)

\* urljoin of the base b, its query and fragment removed, and a relative path p
JoinPath(b, netloc, p) ==
    IF netloc # "" /\ EndsWith(b, "//" \o netloc) THEN b \o "/" \o p
    ELSE SubSeq(b, 1, LastSlash(b)) \o p

\* urljoin(base, p) for a relative path p without dot segments
urljoin(base, p) ==
    JoinPath(BeforeQuery(base), UrlNetloc(BeforeQuery(base)).netloc, p)

guess_candidate_pages(base_url) ==
    [k \in 1..Len(COMMON_PATHS) |->
        urljoin(add_trailing_slash(base_url), COMMON_PATHS[k])]

\* domain(url)
domain(url) == BareDomain(UrlNetloc(url))

\* the rank of the lowercased address e
RankOf(e, local) ==
    LET hits == {i \in 1..Len(PREFER_ORDER) : Contains(local, PREFER_ORDER[i])}
    IN  IF hits # {} THEN (CHOOSE i \in hits : \A j \in hits : i <= j) - 1
        ELSE Len(PREFER_ORDER) + (IF EndsWith(e, "@gmail.com") THEN 1 ELSE 0)

\* e.split("@")[0]
LocalPart(e) ==
    IF IndexOf(e, "@") = 0 THEN e ELSE SubSeq(e, 1, IndexOf(e, "@") - 1)

rank_email(em) == RankOf(Lower(em), LocalPart(Lower(em)))

\* d.endswith(HUB_DOMAINS)
EndsWithHub(d) == \E k \in 1..Len(HUB_DOMAINS) : EndsWith(d, HUB_DOMAINS[k])

\* d in HUB_DOMAINS
InHubDomains(d) == \E k \in 1..Len(HUB_DOMAINS) : d = HUB_DOMAINS[k]

IsAnchor(n) == n.tag = "a"

\* the href values of soup.find_all("a", href=True), in document order
Hrefs(anchors) == [k \in 1..Len(anchors) |-> anchors[k].href]

\* the hrefs hub_expand keeps
KeptHref(href) ==
    /\ ~StartsWith(href, "mailto:")
    /\ ~StartsWith(href, "#")
    /\ ~Contains(href, "reddit.com")

\* hub_expand on the fetched document
HubLinks(doc) ==
    IF Source(doc) = "" THEN <<>>
    ELSE FirstN(SelectSeq(Hrefs(SelectSeq(doc, IsAnchor)), KeptHref), 10)

hub_expand(w, url) == HubLinks(safe_get(w, url))

\* the group of re.search(r"/comments/([a-z0-9]+)/", t) for a match that
\* starts at position i and whose run of id characters ends at e ("": none)
IdAfter(t, i, e) ==
    IF e >= i + 10 /\ CharAt(t, e + 1) = "/" THEN SubSeq(t, i + 10, e) ELSE ""

PostIdAt(t, i) ==
    IF StartsWith(From(t, i - 1), "/comments/")
    THEN IdAfter(t, i, RunEnd(t, i + 10, "id"))
    ELSE ""

\* m.group(1) of the leftmost match ("": no match)
PostId(t) ==
    LET hits == {i \in 1..Len(t) : PostIdAt(t, i) # ""}
    IN  IF hits = {} THEN ""
        ELSE PostIdAt(t, CHOOSE i \in hits : \A j \in hits : i <= j)

\* the try block of reddit_links on the submission s
SubmissionLinks(s) ==
    (IF s.is_self = FALSE /\ s.url # "" THEN <<s.url>> ELSE <<>>)
        \o extract_urls(s.selftext)

\* reddit_links: w.reddit maps the ids of the submissions the API returns to
\* them; the call raises for every other id
LinksOfId(w, sid) ==
    IF sid = "" THEN <<>>
    ELSE IF sid \notin DOMAIN w.reddit THEN <<>>
    ELSE SubmissionLinks(w.reddit[sid])

reddit_links(w, permalink) == LinksOfId(w, PostId(permalink))

\* ---- collect_from_site ----
\* p names a contact page
IsContactPath(p) ==
    Contains(p, "contact") \/ Contains(p, "speaking") \/ Contains(p, "press")

\* the homepage: html = safe_get(site_url); if html: ...
HomeStep(doc) ==
    IF Source(doc) = "" THEN [emails |-> {}, title |-> "", contact_url |-> ""]
    ELSE [emails |-> extract_emails(doc), title |-> page_title(doc),
          contact_url |-> ""]

\* one round of the loop over guess_candidate_pages, h the document of p
PathStep(p, h, acc) ==
    IF Source(h) = "" THEN acc
    ELSE [emails |-> acc.emails \cup extract_emails(h),
          title |-> acc.title,
          contact_url |->
              IF /\ acc.contact_url = ""
                 /\ IsContactPath(p)
                 /\ FindEmails(Source(h), 1) # <<>>
              THEN p ELSE acc.contact_url]

RECURSIVE ProbePages(_, _, _, _)
ProbePages(w, pages, k, acc) ==
    IF k > Len(pages) THEN acc
    ELSE ProbePages(w, pages, k + 1, PathStep(pages[k], safe_get(w, pages[k]), acc))

collect_from_site(w, site_url) ==
    ProbePages(w, guess_candidate_pages(site_url), 1, HomeStep(safe_get(w, site_url)))

\* --------------------------------------------------------------------------
\* enrich_contacts.py: the resolution of one lead
\* --------------------------------------------------------------------------
SOCIAL == {"twitter.com", "x.com", "instagram.com", "tiktok.com"}

\* not any(s in u for s in [...])
NotSocial(u) == \A d \in SOCIAL : ~Contains(u, d)

\* the source links of the lead r
SourceLinks(w, r) ==
    IF Lower(r.platform) = "reddit" THEN reddit_links(w, r.url)
    ELSE extract_urls(r.excerpt)

\* expanded: the links of the hubs among cands[k..]
RECURSIVE Expanded(_, _, _)
Expanded(w, cands, k) ==
    IF k > Len(cands) THEN <<>>
    ELSE (IF EndsWithHub(domain(cands[k])) THEN hub_expand(w, cands[k]) ELSE <<>>)
            \o Expanded(w, cands, k + 1)

\* candidates after the hub expansion, the filter, the uniq loop and the cap
CandidatesFrom(w, src) ==
    FirstN(Unique(SelectSeq(src \o Expanded(w, src, 1), NotSocial)), 5)

Candidates(w, r) == CandidatesFrom(w, SourceLinks(w, r))

\* the locals of the loop body at its start
FreshLead ==
    [website |-> "", company |-> "", emails |-> {}, contact_url |-> "",
     probes |-> <<>>]

\* a later probe result replaces the contact page already kept
MergedLastWins(st, site, pr) ==
    [website |-> st.website,
     company |-> IF st.company # "" THEN st.company ELSE pr.title,
     emails |-> st.emails \cup pr.emails,
     contact_url |-> IF pr.contact_url # "" THEN pr.contact_url ELSE st.contact_url,
     probes |-> Append(st.probes, [site |-> site, emails |-> pr.emails,
                                   title |-> pr.title,
                                   contact_url |-> pr.contact_url])]

\* e2, title2, c_url = collect_from_site(site) merged into the locals st
Merged(st, site, pr) ==
    [website |-> st.website,
     company |-> IF st.company # "" THEN st.company ELSE pr.title,
     emails |-> st.emails \cup pr.emails,
     contact_url |-> IF st.contact_url # "" THEN st.contact_url ELSE pr.contact_url,
     probes |-> Append(st.probes, [site |-> site, emails |-> pr.emails,
                                   title |-> pr.title,
                                   contact_url |-> pr.contact_url])]

\* the fetched candidate: website, company, emails
Landed(st, link, doc) ==
    [website |-> IF st.website = "" /\ domain(link) # "" THEN link ELSE st.website,
     company |-> IF st.company # "" THEN st.company ELSE page_title(doc),
     emails |-> st.emails \cup extract_emails(doc),
     contact_url |-> st.contact_url,
     probes |-> st.probes]

\* if domain(link) not in HUB_DOMAINS: collect_from_site(link)
ProbedUnlessHub(w, st, link) ==
    IF InHubDomains(domain(link)) THEN st
    ELSE Merged(st, link, collect_from_site(w, link))

\* one round of the visit loop
VisitStep(w, st, link) ==
    IF Source(safe_get(w, link)) = "" THEN st
    ELSE ProbedUnlessHub(w, Landed(st, link, safe_get(w, link)), link)

\* if not emails and website: collect_from_site(website)
FallbackStep(w, st) ==
    IF st.emails = {} /\ st.website # ""
    THEN Merged(st, st.website, collect_from_site(w, st.website))
    ELSE st

\* the values sorted(emails, key=rank_email)[0] can take: sorted() is stable
\* and reads the set in its iteration order, which follows the str hashes of
\* the run, so any address of the least rank can come first
BestEmails(es) == {e \in es : \A x \in es : rank_email(e) <= rank_email(x)}

\* a row whose company is the captured title only
EnrichedRowNoFallback(r, st, best_email) ==
    [website |-> st.website,
     contact_url |-> st.contact_url,
     email |-> best_email,
     company |-> st.company] @@ r

\* out = dict(r); out.update({...})
EnrichedRow(r, st, best_email) ==
    [website |-> st.website,
     contact_url |-> st.contact_url,
     email |-> best_email,
     company |-> IF st.company # "" THEN st.company
                 ELSE IF r.subreddit # "" THEN r.subreddit
                 ELSE r.author_handle] @@ r

\* fieldnames of both DictWriter calls
ENRICHED_FIELDS ==
    <<"platform", "subreddit", "url", "author_handle", "title", "excerpt",
      "evidence_quote", "score", "created_utc", "website", "contact_url",
      "email", "company">>

\* --------------------------------------------------------------------------
\* enrich_contacts.py: inputs
\* --------------------------------------------------------------------------
Text(t) == [tag |-> "text", s |-> t]
Anchor(h) == [tag |-> "a", href |-> h, s |-> "link"]
Title(t) == [tag |-> "title", s |-> t]

\* a link-in-bio page with more than ten outbound links
JoeHub ==
    <<Title("joe | Linktree"), Anchor("#top"), Anchor("mailto:hi@joe.io"),
      Anchor("https://www.reddit.com/u/joe"), Anchor("https://twitter.com/joe"),
      Anchor("https://joe.io"), Anchor("https://acme.io"),
      Anchor("https://s1.io"), Anchor("https://s2.io"), Anchor("https://s3.io"),
      Anchor("https://s4.io"), Anchor("https://s5.io"), Anchor("https://s6.io"),
      Anchor("https://s7.io"), Anchor("https://s8.io")>>

\* the pages the web serves
LiveWeb ==
    ("https://acme.io" :> <<Title(" Acme Coaching "), Text("Welcome")>>)
    @@ ("https://acme.io/contact" :> <<Text("use the form")>>)
    @@ ("https://acme.io/contact-us" :> <<Text("demo: jane@example.com")>>)
    @@ ("https://acme.io/press" :>
            <<Anchor("mailto:press@acme.io"), Text("or pr@acme.io")>>)
    @@ ("https://acme.io/about" :> <<Text("founder@acme.io and amy@acme.io")>>)
    @@ ("https://tie.io/" :> <<Title("Tie"), Text("amy@tie.io, bob@tie.io")>>)
    @@ ("https://tie.io/contact" :> <<Text("amy@tie.io")>>)
    @@ ("https://joe.io" :> <<Text("my site")>>)
    @@ ("https://joe.io/about" :> <<Anchor("mailto:"), Text("joe@gmail.com")>>)
    @@ ("https://linktr.ee/joe" :> JoeHub)
    @@ ("https://beacons.ai/sam" :>
            <<Title("sam"), Anchor("https://down.io"), Anchor("/about")>>)
    @@ ("https://beacons.ai/sam/contact" :> <<Text("sam@beacons.ai")>>)
    @@ ("https://my.carrd.co" :> <<Title("My Card"), Text("me@my.carrd.co")>>)
    @@ ("https://Instagram.com/joe" :> <<Title("Joe on Instagram")>>)

\* the submissions the Reddit API returns
LiveReddit ==
    ("abc1" :> [is_self |-> FALSE, url |-> "https://acme.io",
                selftext |-> "see https://tie.io/ and https://acme.io."])
    @@ ("self2" :> [is_self |-> TRUE,
                    url |-> "https://www.reddit.com/r/x/comments/self2/t/",
                    selftext |-> "my page: https://linktr.ee/joe"])

\* the external states: everything answers; the web is down; nothing answers
Worlds ==
    {[web |-> LiveWeb, reddit |-> LiveReddit],
     [web |-> <<>>, reddit |-> LiveReddit],
     [web |-> <<>>, reddit |-> <<>>]}

BaseLead ==
    [platform |-> "youtube", subreddit |-> "Joe Channel",
     url |-> "https://www.youtube.com/channel/UC1", author_handle |-> "Joe Channel",
     title |-> "coaching", excerpt |-> "", evidence_quote |-> "",
     score |-> "25000", created_utc |-> "1699000000"]

RedditLead(permalink) ==
    [BaseLead EXCEPT !.platform = "reddit", !.subreddit = "coaching",
                     !.url = permalink, !.author_handle = "u/amy"]

TubeLead(description) == [BaseLead EXCEPT !.excerpt = description]

LeadPool ==
    {RedditLead("https://www.reddit.com/r/coaching/comments/abc1/need_help/"),
     RedditLead("https://www.reddit.com/r/coaching/comments/self2/my_links/"),
     RedditLead("https://www.reddit.com/r/coaching/comments/zzz9/gone/"),
     RedditLead("https://www.reddit.com/r/coaching/comments/ABC"),
     TubeLead("links: https://linktr.ee/joe"),
     TubeLead("https://beacons.ai/sam"),
     TubeLead("site: https://down.io"),
     TubeLead("https://my.carrd.co"),
     TubeLead("https://joe.io, https://Instagram.com/joe (https://x.com/joe)"),
     TubeLead("https://tie.io/ https://s1.io https://tie.io/ https://twitter.com/t https://a1.io https://a2.io https://a3.io https://a4.io"),
     [TubeLead("") EXCEPT !.subreddit = "", !.author_handle = ""]}

\* --------------------------------------------------------------------------
\* enrich_contacts.py: the script
\* --------------------------------------------------------------------------
InitEnrich ==
    /\ RankIdle
    /\ TextIdle
    /\ \/ /\ rawExists = TRUE
          /\ dataDir = TRUE
          /\ leads \in SeqsUpTo(LeadPool, MaxLeads)
       \/ /\ rawExists = FALSE
          /\ dataDir \in BOOLEAN
          /\ leads = <<>>
    /\ world \in Worlds
    /\ lead_i = 0
    /\ candidates = <<>>
    /\ cand_i = 0
    /\ lead_website = ""
    /\ lead_contact_url = ""
    /\ lead_company = ""
    /\ lead_emails = {}
    /\ probes = <<>>
    /\ out_rows = <<>>
    /\ rerun_rows = <<>>
    /\ enriched = <<>>
    /\ epc = "start"

\* the locals of the lead being resolved
Locals ==
    [website |-> lead_website, company |-> lead_company,
     emails |-> lead_emails, contact_url |-> lead_contact_url,
     probes |-> probes]

SetLocals(st) ==
    /\ lead_website' = st.website
    /\ lead_company' = st.company
    /\ lead_emails' = st.emails
    /\ lead_contact_url' = st.contact_url
    /\ probes' = st.probes

\* if not os.path.exists(RAW_PATH): write the header; raise SystemExit(0).
\* open(ENRICHED_PATH, "w") raises FileNotFoundError when data/ is missing.
WriteEmptyEnriched ==
    /\ epc = "start"
    /\ ~rawExists
    /\ enriched' = IF dataDir THEN [fields |-> ENRICHED_FIELDS, rows |-> <<>>]
                   ELSE <<>>
    /\ epc' = IF dataDir THEN "done" ELSE "failed"
    /\ UNCHANGED <<rawExists, dataDir, leads, world, lead_i, candidates, cand_i,
                   lead_website, lead_contact_url, lead_company, lead_emails,
                   probes, out_rows, rerun_rows>>
    /\ UNCHANGED <<rankVars, textVars>>

\* rows = the rows of RAW_PATH; out_rows = []
ReadRaw ==
    /\ epc = "start"
    /\ rawExists
    /\ out_rows' = <<>>
    /\ epc' = "lead"
    /\ UNCHANGED <<rawExists, dataDir, leads, world, lead_i, candidates, cand_i,
                   lead_website, lead_contact_url, lead_company, lead_emails,
                   probes, rerun_rows, enriched>>
    /\ UNCHANGED <<rankVars, textVars>>

\* for r in rows: the locals are reset and the candidates collected
StartLead ==
    /\ epc = "lead"
    /\ lead_i < Len(leads)
    /\ lead_i' = lead_i + 1
    /\ candidates' = Candidates(world, leads[lead_i + 1])
    /\ cand_i' = 0
    /\ SetLocals(FreshLead)
    /\ epc' = "visit"
    /\ UNCHANGED <<rawExists, dataDir, leads, world, out_rows, rerun_rows, enriched>>
    /\ UNCHANGED <<rankVars, textVars>>

\* for i, link in enumerate(candidates): one round
VisitCandidate ==
    /\ epc = "visit"
    /\ cand_i < Len(candidates)
    /\ cand_i' = cand_i + 1
    /\ SetLocals(VisitStep(world, Locals, candidates[cand_i + 1]))
    /\ UNCHANGED <<rawExists, dataDir, leads, world, lead_i, candidates,
                   out_rows, rerun_rows, enriched, epc>>
    /\ UNCHANGED <<rankVars, textVars>>

\* if not emails and website: ...
Fallback ==
    /\ epc = "visit"
    /\ cand_i = Len(candidates)
    /\ SetLocals(FallbackStep(world, Locals))
    /\ epc' = "choose"
    /\ UNCHANGED <<rawExists, dataDir, leads, world, lead_i, candidates, cand_i,
                   out_rows, rerun_rows, enriched>>
    /\ UNCHANGED <<rankVars, textVars>>

\* best_email: "" when emails is empty
BestChoices(es) == IF es = {} THEN {""} ELSE BestEmails(es)

\* if emails: best_email = sorted(emails, key=rank_email)[0]; out_rows.append(out).
\* The second run reaches this point with the same locals and makes its own
\* choice among the addresses of the least rank.
EmitRow ==
    /\ epc = "choose"
    /\ \E e \in BestChoices(lead_emails) :
           out_rows' = Append(out_rows, EnrichedRow(leads[lead_i], Locals, e))
    /\ \E e \in BestChoices(lead_emails) :
           rerun_rows' = Append(rerun_rows, EnrichedRow(leads[lead_i], Locals, e))
    /\ epc' = "lead"
    /\ UNCHANGED <<rawExists, dataDir, leads, world, lead_i, candidates, cand_i,
                   lead_website, lead_contact_url, lead_company, lead_emails,
                   probes, enriched>>
    /\ UNCHANGED <<rankVars, textVars>>

\* os.makedirs("data", exist_ok=True); w.writeheader(); w.writerows(out_rows)
WriteEnriched ==
    /\ epc = "lead"
    /\ lead_i = Len(leads)
    /\ dataDir' = TRUE
    /\ enriched' = [fields |-> ENRICHED_FIELDS, rows |-> out_rows]
    /\ epc' = "done"
    /\ UNCHANGED <<rawExists, leads, world, lead_i, candidates, cand_i,
                   lead_website, lead_contact_url, lead_company, lead_emails,
                   probes, out_rows, rerun_rows>>
    /\ UNCHANGED <<rankVars, textVars>>

NextEnrich ==
    \/ WriteEmptyEnriched
    \/ ReadRaw
    \/ StartLead
    \/ VisitCandidate
    \/ Fallback
    \/ EmitRow
    \/ WriteEnriched

SpecEnrich == InitEnrich /\ [][NextEnrich]_vars

\* --------------------------------------------------------------------------
\* Properties of the contact resolution
\* --------------------------------------------------------------------------
\* every fetch of a candidate of the lead r fails (no candidates included)
AllFetchesFail(w, r) ==
    \A k \in 1..Len(Candidates(w, r)) :
        Source(safe_get(w, Candidates(w, r)[k])) = ""

\* the lead fields of an enriched row
LeadFields(row, r) == [f \in DOMAIN r |-> row[f]]

\* the rows emitted so far are the leads resolved so far, one each, in order
OneRowPerLead ==
    /\ Len(out_rows) = IF epc \in {"visit", "choose"} THEN lead_i - 1 ELSE lead_i
    /\ \A i \in 1..Len(out_rows) : LeadFields(out_rows[i], leads[i]) = leads[i]
    /\ (epc = "done" /\ rawExists) =>
           /\ enriched.rows = out_rows
           /\ Len(out_rows) = Len(leads)

\* company or r.get("subreddit", "") or r.get("author_handle", "")
CompanyFallback(r) == IF r.subreddit # "" THEN r.subreddit ELSE r.author_handle

\* C11 as stated: one enriched row per lead, in input order, and a lead all of
\* whose fetches fail gets a row whose website, contact_url, email and company
\* are empty.
Claim_C11 ==
    /\ OneRowPerLead
    /\ \A i \in 1..Len(out_rows) :
          AllFetchesFail(world, leads[i]) =>
              /\ out_rows[i].website = ""
              /\ out_rows[i].contact_url = ""
              /\ out_rows[i].email = ""
              /\ out_rows[i].company = ""

\* C11, amended: one enriched row per lead, in input order, and a lead all of
\* whose fetches fail gets a row whose website, contact_url and email are
\* empty and whose company is the lead's subreddit, or its author_handle when
\* the subreddit is empty.
Thm_C11 ==
    /\ OneRowPerLead
    /\ \A i \in 1..Len(out_rows) :
          AllFetchesFail(world, leads[i]) =>
              /\ out_rows[i].website = ""
              /\ out_rows[i].contact_url = ""
              /\ out_rows[i].email = ""
              /\ out_rows[i].company = CompanyFallback(leads[i])

\* a finished run of two leads: every fetch of the first fails and its row
\* carries the subreddit as company, the second is resolved
Witness_C11 ==
    /\ epc = "done"
    /\ Len(leads) = 2
    /\ Len(enriched.rows) = 2
    /\ AllFetchesFail(world, leads[1])
    /\ Len(Candidates(world, leads[1])) > 0
    /\ enriched.rows[1].company = "Joe Channel"
    /\ ~AllFetchesFail(world, leads[2])
    /\ enriched.rows[2].website # ""

\* the row of the lead resolved last has been emitted and its locals stand
JustEmitted == epc \in {"lead", "done"} /\ lead_i >= 1 /\ Len(out_rows) = lead_i

\* the addresses discovered for the lead: the accumulator without the empty
\* string an empty mailto: href leaves in it
Discovered == lead_emails \ {""}

\* C12: the email written for a lead is empty iff no email was discovered;
\* otherwise it is a discovered email whose rank is at most the rank of every
\* other discovered email.
Claim_C12 ==
    JustEmitted =>
        /\ out_rows[lead_i].email = "" <=> Discovered = {}
        /\ Discovered # {} =>
              /\ out_rows[lead_i].email \in Discovered
              /\ \A x \in Discovered :
                    rank_email(out_rows[lead_i].email) <= rank_email(x)

\* a gmail address was discovered next to an empty mailto: href, and the
\* email written is empty
Witness_C12 ==
    /\ JustEmitted
    /\ lead_emails = {"", "joe@gmail.com"}
    /\ out_rows[lead_i].email = ""

\* C13: two runs over the same input file against the same external state
\* produce identical enriched rows in identical order, the selected email of
\* each lead included.
Claim_C13 == out_rows = rerun_rows

\* two addresses of the same rank were discovered and the two runs wrote
\* different ones
Witness_C13 ==
    /\ JustEmitted
    /\ lead_emails = {"amy@tie.io", "bob@tie.io"}
    /\ out_rows[lead_i].email = "amy@tie.io"
    /\ rerun_rows[lead_i].email = "bob@tie.io"

\* --------------------------------------------------------------------------
\* The two stages, either one run on its own
\* --------------------------------------------------------------------------
InitStages == Init \/ InitEnrich

NextStages == Next \/ NextEnrich

SpecStages == InitStages /\ [][NextStages]_vars

\* the schemas of the two output files
EnrichedSchema ==
    <<"platform", "subreddit", "url", "author_handle", "title", "excerpt",
      "evidence_quote", "score", "created_utc", "website", "contact_url",
      "email", "company">>

RankedSchema ==
    <<"platform", "prospect_name", "company", "audience_type", "audience_metric",
      "intent_score", "contactability_score", "freshness_score", "total_score",
      "website", "email", "contact_url", "evidence_url", "evidence_quote",
      "created_date", "source_title", "source_excerpt", "author_handle">>

\* C14: a stage whose input file is absent or has no data rows still writes
\* its output file, the header row of its schema and no data row, and ends
\* with success status.
Claim_C14 ==
    /\ (epc \in {"done", "failed"} /\ (~rawExists \/ leads = <<>>)) =>
           /\ epc = "done"
           /\ enriched = [fields |-> EnrichedSchema, rows |-> <<>>]
    /\ (pc \in {"done", "failed"} /\ (~inExists \/ rows = <<>>)) =>
           /\ pc = "done"
           /\ outFields = RankedSchema
           /\ out = <<>>

\* a stage has ended in failure, without an output file, on an absent input
\* file in an absent data directory
Witness_C14 ==
    \/ epc = "failed" /\ ~rawExists /\ ~dataDir /\ enriched = <<>>
    \/ pc = "failed" /\ ~inExists /\ ~outDir /\ outFields = <<>>

\* C15: during the resolution of a lead, collect_from_site is never invoked
\* on a candidate whose domain is one of the hub domains, the fallback on
\* website included.
Claim_C15 ==
    \A k \in 1..Len(probes) :
        \A c \in 1..Len(candidates) :
            candidates[c] = probes[k].site =>
                ~InHubDomains(domain(candidates[c]))

\* the fallback has probed the hub page that became the website
Witness_C15 ==
    /\ epc = "choose"
    /\ Len(candidates) >= 1
    /\ candidates[1] = "https://beacons.ai/sam"
    /\ lead_website = "https://beacons.ai/sam"
    /\ Len(probes) = 1
    /\ probes[1].site = "https://beacons.ai/sam"

\* the lead being resolved and its candidate list stand
Resolving == epc \in {"visit", "choose"}

\* the source links of the lead being resolved followed by the links of
\* their hubs
AllLinks ==
    SourceLinks(world, leads[lead_i])
        \o Expanded(world, SourceLinks(world, leads[lead_i]), 1)

\* the position of the first occurrence of u in the list s
FirstAt(s, u) == CHOOSE k \in 1..Len(s) : s[k] = u /\ \A j \in 1..(k - 1) : s[j] # u

\* the Reddit post id of the lead r cannot be parsed or the API call fails
RedditFails(w, r) ==
    /\ Lower(r.platform) = "reddit"
    /\ PostId(r.url) = "" \/ PostId(r.url) \notin DOMAIN w.reddit

\* C16: the candidate list has at most 5 entries, no duplicate, first-seen
\* order (source links before hub-expanded links) and no link whose domain
\* contains twitter.com, x.com, instagram.com or tiktok.com; each hub page
\* contributes at most 10 links, none a mailto:, a fragment-only or a reddit
\* link; the list is empty when the Reddit lookup fails.
Claim_C16 ==
    Resolving =>
        /\ Len(candidates) <= 5
        /\ \A i, j \in 1..Len(candidates) : i # j => candidates[i] # candidates[j]
        /\ \A i \in 1..Len(candidates) :
              /\ \E k \in 1..Len(AllLinks) : AllLinks[k] = candidates[i]
              /\ \A j \in (i + 1)..Len(candidates) :
                    FirstAt(AllLinks, candidates[i]) < FirstAt(AllLinks, candidates[j])
              /\ \A d \in SOCIAL : ~Contains(domain(candidates[i]), d)
        /\ \A k \in 1..Len(SourceLinks(world, leads[lead_i])) :
              EndsWithHub(domain(SourceLinks(world, leads[lead_i])[k])) =>
                  /\ Len(hub_expand(world, SourceLinks(world, leads[lead_i])[k])) <= 10
                  /\ \A h \in Range(hub_expand(world, SourceLinks(world, leads[lead_i])[k])) :
                        /\ ~StartsWith(h, "mailto:")
                        /\ ~StartsWith(h, "#")
                        /\ ~Contains(h, "reddit.com")
        /\ RedditFails(world, leads[lead_i]) => candidates = <<>>

\* a link of domain instagram.com is a candidate
Witness_C16 ==
    /\ Resolving
    /\ \E i \in 1..Len(candidates) :
          /\ candidates[i] = "https://Instagram.com/joe"
          /\ domain(candidates[i]) = "instagram.com"

\* the page p was fetched, names a contact page and holds an address
ContactPage(w, p) ==
    /\ Source(safe_get(w, p)) # ""
    /\ IsContactPath(p)
    /\ FirstEmailAt(Source(safe_get(w, p)), 1) # 0

\* c is the first contact page among pages, "" when there is none
FirstContactPage(w, pages, c) ==
    IF \A k \in 1..Len(pages) : ~ContactPage(w, pages[k]) THEN c = ""
    ELSE \E k \in 1..Len(pages) :
            /\ ContactPage(w, pages[k])
            /\ \A j \in 1..(k - 1) : ~ContactPage(w, pages[j])
            /\ c = pages[k]

\* the contact page kept is the one of the first probe that returned one
FirstProbeKept ==
    IF \A k \in 1..Len(probes) : probes[k].contact_url = ""
    THEN lead_contact_url = ""
    ELSE \E k \in 1..Len(probes) :
            /\ probes[k].contact_url # ""
            /\ \A j \in 1..(k - 1) : probes[j].contact_url = ""
            /\ lead_contact_url = probes[k].contact_url

\* the candidate of index c was visited and fetched
Fetched(c) == c <= cand_i /\ Source(safe_get(world, candidates[c])) # ""

\* website is the first fetched candidate among those visited
FirstFetchedKept ==
    IF \A c \in 1..Len(candidates) : ~Fetched(c) THEN lead_website = ""
    ELSE \E c \in 1..Len(candidates) :
            /\ Fetched(c)
            /\ \A j \in 1..(c - 1) : ~Fetched(j)
            /\ lead_website = candidates[c]

\* the state of a resolution under way agrees with the first-wins rule
FirstWins ==
    epc \in {"visit", "choose"} =>
        /\ \A k \in 1..Len(probes) :
               FirstContactPage(world, guess_candidate_pages(probes[k].site),
                                probes[k].contact_url)
        /\ FirstProbeKept
        /\ FirstFetchedKept

\* a step within one lead leaves a non-empty contact_url and website alone
KeptOnceSet ==
    lead_i' = lead_i =>
        /\ lead_contact_url # "" => lead_contact_url' = lead_contact_url
        /\ lead_website # "" => lead_website' = lead_website

\* C17: during the resolution of one lead contact_url is write-once: a probe
\* returns the first fetched sub-path whose URL contains contact, speaking or
\* press and whose body matches the email pattern, the resolver keeps the
\* first non-empty contact_url a probe returned, and no later page, candidate
\* or fallback probe changes it; website likewise stays the first fetched
\* candidate.
Thm_C17 == [][FirstWins /\ KeptOnceSet]_vars

\* two probes of one lead each returned a contact page, the pages differ and
\* the first is kept; the second candidate was fetched after the website was set
Witness_C17 ==
    /\ epc \in {"visit", "choose"}
    /\ Len(probes) >= 2
    /\ probes[1].contact_url # ""
    /\ probes[2].contact_url # ""
    /\ probes[1].contact_url # probes[2].contact_url
    /\ lead_contact_url = probes[1].contact_url
    /\ cand_i >= 2
    /\ Fetched(1) /\ Fetched(2)
    /\ lead_website = candidates[1]

====
